---- MODULE Spec2Model ----
(***************************************************************************)
(* A model of the Search Aggregation & Source Registry of the deep         *)
(* research agent: the search tools with their process-global session      *)
(* store (_SEARCH_CACHE), the detail retriever, the domain queries, the     *)
(* store-less search tool of search.py, and the retry loops of the network *)
(* clients.                                                                *)
(***************************************************************************)
EXTENDS Integers, Sequences, FiniteSets, TLC

VARIABLES
    module,         \* the tools module the process runs: search, search2, search3, parallel_test
    refiner_model,  \* parallel_test: whether GOOGLE_API_KEY configured the refiner
    SEARCH_CACHE,   \* _SEARCH_CACHE: the sessions in insertion order, <<[id, data], ...>>
    call,           \* the tool call in flight, or NoCall
    ret,            \* what the last completed tool call returned, with its arguments
    n_calls,        \* tool calls made so far
    refine_calls,   \* per record (search_id, src_id): refinement requests sent to the LLM
    fetch_calls,    \* per record (search_id, src_id): page requests sent
    r_client,       \* the client whose retried operation is running
    r_max,          \* config.max_retries of that client
    r_attempt,      \* the loop variable `attempt` of range(max_retries)
    r_pc,           \* "idle" | "try" | "sleep" | "returned" | "raised"
    r_history,      \* outcome of every attempt made so far, in order
    r_sleeps,       \* argument of every asyncio.sleep made so far, in order
    r_result,       \* the value returned or the error raised
    r_tokens,       \* stream_chat_completion: the tokens the caller has received, in order
    r_prev          \* the previous finished call (client, budget, outcomes, sleeps, end)

retryVars == <<r_client, r_max, r_attempt, r_pc, r_history, r_sleeps, r_result,
               r_tokens, r_prev>>

toolVars == <<module, refiner_model, SEARCH_CACHE, call, ret, n_calls,
              refine_calls, fetch_calls>>

vars == <<module, refiner_model, SEARCH_CACHE, call, ret, n_calls,
          refine_calls, fetch_calls,
          r_client, r_max, r_attempt, r_pc, r_history, r_sleeps, r_result,
          r_tokens, r_prev>>

Null == "None"

\* {}
EmptyDict == [k \in {} |-> Null]

\* No call in flight; nothing returned yet.
NoCall == [op |-> "none"]
NoRet == [op |-> "none"]

\* None, where a search_id may stand
NoId == <<>>

(***************************************************************************)
(* Bounds of the model.                                                    *)
(***************************************************************************)
MaxRetries == 3
MaxCalls == 3       \* tool calls in one run

(***************************************************************************)
(* The retry loops of the clients.                                         *)
(* An attempt's outcome is the HTTP status of the response ("200", "404",  *)
(* "429", "500") or "exc": the request raised (timeout, transport error).  *)
(* The LLM SDK calls either return ("200") or raise ("exc").               *)
(***************************************************************************)
SearchClients == {"TavilySearchTool", "ParallelSearchTool"}
LLMClients == {"LLMClient", "GeminiClient"}
Clients == SearchClients \cup LLMClients

\* The loops the comparison of retry loops covers: the clients' and the URL
\* validator's.
Compared == Clients \cup {"URLValidator"}

ErrorStatuses == {"404", "429", "500"}
Outcomes(client) ==
    IF client \in SearchClients THEN {"200", "exc"} \cup ErrorStatuses
    ELSE {"200", "exc"}

\* The typed error of modules/custom_errors.py each client raises.
TypedError(client) ==
    IF client \in SearchClients THEN "SearchToolError" ELSE "LLMClientError"

\* The response the attempt numbered `attempt` (0-based) received.
Response(attempt) == [kind |-> "response", attempt |-> attempt]

\* The call has not ended: there is no result yet.
NoResult == [kind |-> "none"]

Returned(value) == [kind |-> "return", value |-> value]
Raised(error, cause, attempts) ==
    [kind |-> "raise", error |-> error, cause |-> cause, after |-> attempts]

\* A backoff that grows linearly instead of doubling.
BackoffLinear(attempt) == 2 * attempt

\* asyncio.sleep(2 ** attempt)
Backoff(attempt) == 2 ^ attempt

\* `for attempt in range(max_retries)`: the loop body runs while attempt <
\* max_retries; falling out of the loop ends the function, which returns None.
LoopHead(attempt, max) ==
    IF attempt < max
    THEN /\ r_pc' = "try"
         /\ r_result' = NoResult
    ELSE /\ r_pc' = "returned"
         /\ r_result' = Returned(Null)

\* No call has finished yet.
NoRun == [client |-> Null, max |-> 0, history |-> <<>>, sleeps |-> <<>>,
          end |-> "none", error |-> Null]

\* What a finished call did: its attempts' outcomes, its sleeps and how it
\* ended ("return" or "raise", with the error raised).
FinishedRun ==
    [client |-> r_client, max |-> r_max, history |-> r_history, sleeps |-> r_sleeps,
     end |-> r_result.kind,
     error |-> IF r_result.kind = "raise" THEN r_result.error ELSE Null]

\* A new call starts: when it and the call that has just finished are both of
\* the compared loops, what the finished one did is kept for comparison.
StartCall(client, max) ==
    /\ r_pc \in {"idle", "returned", "raised"}
    /\ r_client' = client
    /\ r_max' = max
    /\ r_attempt' = 0
    /\ r_history' = <<>>
    /\ r_sleeps' = <<>>
    /\ r_tokens' = <<>>
    /\ r_prev' = IF r_pc # "idle" /\ r_client \in Compared /\ client \in Compared
                 THEN FinishedRun
                 ELSE NoRun
    /\ UNCHANGED toolVars

\* The call of a client's retried operation.
Call(client, max) ==
    /\ StartCall(client, max)
    /\ LoopHead(0, max)

\* The exhaustion test off by one: `attempt == max_retries`.
LastAttemptOffByOne(attempt, max) == attempt = max

\* `if attempt == self.config.max_retries - 1`
LastAttempt(attempt, max) == attempt = max - 1

\* `except Exception as e`: the last attempt raises the typed error, any other
\* goes on to the backoff sleep.

ExceptException(cause) ==
    IF LastAttempt(r_attempt, r_max)
    THEN /\ r_pc' = "raised"
         /\ r_result' = Raised(TypedError(r_client), cause, r_max)
    ELSE /\ r_pc' = "sleep"
         /\ r_result' = NoResult

\* TavilySearchTool.search: a response whose status is not 200 raises
\* SearchToolError inside the try, and `except SearchToolError: raise` lets it
\* through.
TavilyAttempt(outcome) ==
    /\ r_pc = "try"
    /\ r_client = "TavilySearchTool"
    /\ r_history' = Append(r_history, outcome)
    /\ IF outcome = "200"
       THEN /\ r_pc' = "returned"
            /\ r_result' = Returned(Response(r_attempt))
       ELSE IF outcome \in ErrorStatuses
       THEN /\ r_pc' = "raised"
            /\ r_result' = Raised("SearchToolError", outcome, r_attempt + 1)
       ELSE ExceptException(outcome)
    /\ UNCHANGED <<r_client, r_max, r_attempt, r_sleeps, r_tokens, r_prev>>
    /\ UNCHANGED toolVars

\* ParallelSearchTool.search: the SearchToolError of a non-200 response is
\* caught by the one `except Exception` like any other failure.
ParallelAttempt(outcome) ==
    /\ r_pc = "try"
    /\ r_client = "ParallelSearchTool"
    /\ r_history' = Append(r_history, outcome)
    /\ IF outcome = "200"
       THEN /\ r_pc' = "returned"
            /\ r_result' = Returned(Response(r_attempt))
       ELSE ExceptException(outcome)
    /\ UNCHANGED <<r_client, r_max, r_attempt, r_sleeps, r_tokens, r_prev>>
    /\ UNCHANGED toolVars

\* LLMClient.chat_completion and GeminiClient.chat_completion.
ChatAttempt(outcome) ==
    /\ r_pc = "try"
    /\ r_client \in LLMClients
    /\ r_history' = Append(r_history, outcome)
    /\ IF outcome = "200"
       THEN /\ r_pc' = "returned"
            /\ r_result' = Returned(Response(r_attempt))
       ELSE ExceptException(outcome)
    /\ UNCHANGED <<r_client, r_max, r_attempt, r_sleeps, r_tokens, r_prev>>
    /\ UNCHANGED toolVars

\* The streaming operations of the LLM clients.
StreamClients == {"LLMClient.stream", "GeminiClient.stream"}

\* The numbers of tokens an attempt yields before its stream ends or raises.
ChunkCounts == {0, 2}

\* stream_chat_completion: the same loop around an async generator; falling
\* out of the loop ends the generator.
stream_chat_completion(client, max) ==
    /\ client \in StreamClients
    /\ StartCall(client, max)
    /\ LoopHead(0, max)

\* One attempt of stream_chat_completion: every chunk of the stream is
\* yielded to the caller as it arrives (each token is tagged here with the
\* attempt that yielded it); the stream then ends (`return`) or raises, which
\* the `except Exception` of the loop handles like a failed request.
StreamAttempt(outcome, chunks) ==
    /\ r_pc = "try"
    /\ r_client \in StreamClients
    /\ r_history' = Append(r_history, outcome)
    /\ r_tokens' = r_tokens \o [k \in 1..chunks |-> <<r_attempt, k>>]
    /\ IF outcome = "200"
       THEN /\ r_pc' = "returned"
            /\ r_result' = Returned(Null)
       ELSE ExceptException(outcome)
    /\ UNCHANGED <<r_client, r_max, r_attempt, r_sleeps, r_prev>>
    /\ UNCHANGED toolVars

\* URLValidator.validate_url returns (is_valid, error_message, preview_text).
Triple(is_valid, error_message, preview_text) ==
    [is_valid |-> is_valid, error_message |-> error_message,
     preview_text |-> preview_text]

\* What an attempt of the validator can meet: a response with a status (a
\* 200 whose text reads as a page, reads as a "404 ... not found" page or
\* cannot be read), a timeout (asyncio.TimeoutError) or another exception.
ValidatorOutcomes ==
    {"200", "soft404", "unreadable", "404", "500", "timeout", "exc"}

\* validate_url: `for attempt in range(self.config.max_retries)`; with no
\* iteration the function falls to its last line.
ValidateCall(max) ==
    /\ StartCall("URLValidator", max)
    /\ IF 0 < max
       THEN /\ r_pc' = "try"
            /\ r_result' = NoResult
       ELSE /\ r_pc' = "returned"
            /\ r_result' = Returned(Triple(FALSE, "Validation failed after retries", Null))

\* What validate_url returns from inside `async with session.get(...)`.
ResponseTriple(outcome) ==
    CASE outcome = "404"        -> Triple(FALSE, "404 URL not found", Null)
      [] outcome = "500"        -> Triple(FALSE, "HTTP 500", Null)
      [] outcome = "soft404"    -> Triple(FALSE, "404 URL not found", Null)
      [] outcome = "unreadable" -> Triple(TRUE, Null, Null)
      [] OTHER                  -> Triple(TRUE, Null, "preview")

\* A loop that also goes round again on a server error.
HandledWithServerErrors(outcome) == outcome \in {"timeout", "exc", "500"}

\* The outcomes the two except clauses of the loop handle: the request raised
\* instead of giving a response.
Handled(outcome) == outcome \in {"timeout", "exc"}

\* One attempt of validate_url: a response ends the call; a timeout or another
\* exception ends it on the last attempt and otherwise goes straight to the
\* next iteration (the loop has no sleep).
ValidateAttempt(outcome) ==
    /\ r_pc = "try"
    /\ r_client = "URLValidator"
    /\ r_history' = Append(r_history, outcome)
    /\ IF ~Handled(outcome)
       THEN /\ r_pc' = "returned"
            /\ r_result' = Returned(ResponseTriple(outcome))
            /\ UNCHANGED r_attempt
       ELSE IF LastAttempt(r_attempt, r_max)
       THEN /\ r_pc' = "returned"
            /\ r_result' = Returned(Triple(FALSE,
                                IF outcome = "timeout" THEN "Timeout" ELSE "exc",
                                Null))
            /\ UNCHANGED r_attempt
       ELSE /\ r_pc' = "try"
            /\ r_result' = NoResult
            /\ r_attempt' = r_attempt + 1
    /\ UNCHANGED <<r_client, r_max, r_sleeps, r_tokens, r_prev>>
    /\ UNCHANGED toolVars

\* `await asyncio.sleep(2 ** attempt)`, then the next iteration of the loop.
Sleep ==
    /\ r_pc = "sleep"
    /\ r_sleeps' = Append(r_sleeps, Backoff(r_attempt))
    /\ r_attempt' = r_attempt + 1
    /\ LoopHead(r_attempt + 1, r_max)
    /\ UNCHANGED <<r_client, r_max, r_history, r_tokens, r_prev>>
    /\ UNCHANGED toolVars

\* The tools are not in use while a client's retry loop is examined.
ToolsIdle ==
    /\ module = Null
    /\ refiner_model = FALSE
    /\ SEARCH_CACHE = <<>>
    /\ call = NoCall
    /\ ret = NoRet
    /\ n_calls = 0
    /\ refine_calls = EmptyDict
    /\ fetch_calls = EmptyDict

RetryIdle ==
    /\ r_client = Null
    /\ r_max = 0
    /\ r_attempt = 0
    /\ r_pc = "idle"
    /\ r_history = <<>>
    /\ r_sleeps = <<>>
    /\ r_result = NoResult
    /\ r_tokens = <<>>
    /\ r_prev = NoRun

RetryInit ==
    /\ ToolsIdle
    /\ RetryIdle

RetryNext ==
    \/ \E client \in Clients, max \in 0..MaxRetries : Call(client, max)
    \/ \E outcome \in Outcomes("TavilySearchTool") : TavilyAttempt(outcome)
    \/ \E outcome \in Outcomes("ParallelSearchTool") : ParallelAttempt(outcome)
    \/ \E outcome \in Outcomes("LLMClient") : ChatAttempt(outcome)
    \/ \E client \in StreamClients, max \in 0..MaxRetries :
           stream_chat_completion(client, max)
    \/ \E outcome \in {"200", "exc"}, chunks \in ChunkCounts :
           StreamAttempt(outcome, chunks)
    \/ \E max \in 0..MaxRetries : ValidateCall(max)
    \/ \E outcome \in ValidatorOutcomes : ValidateAttempt(outcome)
    \/ Sleep

RetrySpec == RetryInit /\ [][RetryNext]_vars

\* Every attempt of validate_url ends: the request runs under
\* aiohttp.ClientTimeout(total=self.config.timeout), so it gives a response,
\* times out or raises.
RetryFairSpec ==
    RetrySpec /\ WF_r_history(\E outcome \in ValidatorOutcomes : ValidateAttempt(outcome))

(***************************************************************************)
(* Strings.  A Python string is modelled by the document it was cut from   *)
(* (doc, a tuple of names), the number of characters kept of it (len),     *)
(* whether it still                                                        *)
(* holds newline characters (nl) and whether "..." was appended (dots).    *)
(***************************************************************************)
Str(doc, len, nl) == [doc |-> doc, len |-> len, nl |-> nl, dots |-> FALSE]

\* ""
EmptyStr == Str(<<>>, 0, FALSE)

\* None, where a string may stand
NoneStr == Str(<<>>, -1, FALSE)

\* len(s)
StrLen(s) == s.len + (IF s.dots THEN 3 ELSE 0)

\* s[:n] of a string that carries no appended "..."
Slice(s, n) == IF s.len <= n THEN s ELSE [s EXCEPT !.len = n]

\* s.replace("\n", " ")
ReplaceNewlines(s) == [s EXCEPT !.nl = FALSE]

\* s + "..."
AddDots(s) == [s EXCEPT !.dots = TRUE]

\* Python truthiness of an optional string: None and "" are falsy.
Truthy(s) == s # NoneStr /\ StrLen(s) > 0

Min(a, b) == IF a <= b THEN a ELSE b

\* "\n\n".join(excerpts) of a non-empty list of strings
RECURSIVE JoinedLen(_)
JoinedLen(excerpts) ==
    IF Len(excerpts) = 1 THEN StrLen(excerpts[1])
    ELSE StrLen(excerpts[1]) + 2 + JoinedLen(Tail(excerpts))

RECURSIVE JoinedDoc(_)
JoinedDoc(excerpts) ==
    IF excerpts = <<>> THEN <<>> ELSE Head(excerpts).doc \o JoinedDoc(Tail(excerpts))

JoinExcerpts(excerpts) ==
    IF Len(excerpts) = 1 THEN excerpts[1]
    ELSE Str(JoinedDoc(excerpts), JoinedLen(excerpts), TRUE)

(***************************************************************************)
(* URLs.  A URL string is modelled by its segments between '/' characters, *)
(* which is what url_link.split('/') yields: "https://example.com/a" is    *)
(* <<"https:", "", "example.com", "a">> and the empty string is <<"">>.    *)
(***************************************************************************)
UrlExample == <<"https:", "", "example.com", "a">>
UrlOther == <<"https:", "", "other.org", "b">>
UrlExample2 == <<"https:", "", "example.com", "c">>
UrlEmpty == <<"">>

\* None, where a url may stand (no string splits into no segment)
NoneUrl == <<>>

\* try: domain = url_link.split('/')[2]  except IndexError: domain = "unknown"
DomainOf(url) == IF Len(url) >= 3 THEN url[3] ELSE "unknown"

(***************************************************************************)
(* What the search providers return.  Absent marks a key the payload does  *)
(* not carry.  A result carries the fields both providers use: SearXNG     *)
(* reads url, title, content; Parallel reads url, title, excerpts,         *)
(* extract, snippet.                                                       *)
(***************************************************************************)
AbsentStr == Str(<<>>, -2, FALSE)
AbsentUrl == <<"/">>
AbsentList == <<AbsentStr>>

Absent(key) ==
    CASE key = "url" -> AbsentUrl
      [] key = "excerpts" -> AbsentList
      [] OTHER -> AbsentStr

\* dict.get(key, default)
Get(dict, key, default) == IF dict[key] = Absent(key) THEN default ELSE dict[key]

Raw1 ==
    [url |-> UrlExample, title |-> Str(<<"T1">>, 20, FALSE),
     content |-> Str(<<"C1">>, 400, TRUE),
     excerpts |-> <<Str(<<"E1a">>, 350, TRUE), Str(<<"E1b">>, 50, FALSE)>>,
     extract |-> AbsentStr, snippet |-> AbsentStr]
Raw2 ==
    [url |-> UrlOther, title |-> Str(<<"T2">>, 70, FALSE),
     content |-> Str(<<"C2">>, 120, FALSE),
     excerpts |-> <<>>,
     extract |-> Str(<<"X2">>, 150, TRUE), snippet |-> Str(<<"S2">>, 40, FALSE)]
Raw3 ==
    [url |-> UrlEmpty, title |-> AbsentStr,
     content |-> AbsentStr,
     excerpts |-> AbsentList,
     extract |-> AbsentStr, snippet |-> Str(<<"S3">>, 30, FALSE)]
Raw4 ==
    [url |-> UrlExample2, title |-> Str(<<"T4">>, 10, FALSE),
     content |-> Str(<<"C4">>, 160, TRUE),
     excerpts |-> <<Str(<<"E4">>, 90, FALSE)>>,
     extract |-> AbsentStr, snippet |-> AbsentStr]

\* A result whose "url" is null.
RawNull == [Raw4 EXCEPT !.url = NoneUrl]

Catalog == <<Raw1, Raw2, Raw3, Raw4>>

\* The page of n results the provider serves starting at catalogue entry first.
Page(first, n) ==
    [i \in 1..n |-> Catalog[((first + i - 2) % Len(Catalog)) + 1]]

(***************************************************************************)
(* Citation IDs and session keys.                                          *)
(***************************************************************************)
\* f"src_{src_counter}"
SrcId(n) == <<"src_", n>>

\* hash(json.dumps(queries)): Python's string hash, a signed 64-bit integer
\* that is fixed for one process; given here by its sign and decimal digits.
PyHash(queries) ==
    CASE queries = <<>>           -> [neg |-> FALSE, digits |-> <<5, 7, 4, 0, 0, 2, 1, 9, 3, 3>>]
      [] queries = <<"qa">>       -> [neg |-> TRUE,  digits |-> <<8, 1, 2, 6, 6, 0, 4, 5, 7, 1>>]
      [] queries = <<"qb">>       -> [neg |-> FALSE, digits |-> <<3, 3, 0, 9, 1, 8, 7, 2, 4>>]
      [] queries = <<"qa", "qb">> -> [neg |-> FALSE, digits |-> <<6, 2, 5, 1, 4, 4, 0, 8, 7, 7>>]
      [] queries = <<"qb", "qa">> -> [neg |-> TRUE,  digits |-> <<1, 9, 0, 3, 5, 5, 2, 6, 4, 8>>]
      [] queries = <<"qa", "qa">> -> [neg |-> FALSE, digits |-> <<4, 4, 7, 2, 9, 1, 3, 0, 6>>]
      [] OTHER                    -> [neg |-> FALSE, digits |-> <<7, 0, 1, 1, 8, 3, 5, 9, 2, 6>>]

SearchIdLen == 8

\* str(abs(hash(json.dumps(queries))))[:8]
SearchId(queries) ==
    LET digits == PyHash(queries).digits
    IN  SubSeq(digits, 1, Min(SearchIdLen, Len(digits)))

(***************************************************************************)
(* The session store: a Python dict, which keeps insertion order and       *)
(* leaves a key in its place when the key is assigned again.               *)
(***************************************************************************)
CacheIds == {SEARCH_CACHE[i].id : i \in 1..Len(SEARCH_CACHE)}

\* _SEARCH_CACHE[search_id] for a key of the cache
CacheGet(search_id) ==
    LET i == CHOOSE i \in 1..Len(SEARCH_CACHE) : SEARCH_CACHE[i].id = search_id
    IN  SEARCH_CACHE[i].data

\* list(_SEARCH_CACHE.values())[-1]
CacheLast == SEARCH_CACHE[Len(SEARCH_CACHE)].data
CacheLastId == SEARCH_CACHE[Len(SEARCH_CACHE)].id

\* _SEARCH_CACHE[search_id] = data
CachePut(cache, search_id, data) ==
    IF \E i \in 1..Len(cache) : cache[i].id = search_id
    THEN [i \in 1..Len(cache) |->
            IF cache[i].id = search_id THEN [id |-> search_id, data |-> data]
            ELSE cache[i]]
    ELSE Append(cache, [id |-> search_id, data |-> data])

\* all_sources.update(sources)
Update(all_sources, sources) ==
    [k \in DOMAIN all_sources \cup DOMAIN sources |->
        IF k \in DOMAIN sources THEN sources[k] ELSE all_sources[k]]


(***************************************************************************)
(* Search: one query's request and the processing of its response.         *)
(* A request's outcome is a page of results ("ok"), an HTTP error status   *)
(* ("status") or an exception of the HTTP client ("exc").                  *)
(***************************************************************************)
OkOutcome(page) == [kind |-> "ok", page |-> page, status |-> "200"]
StatusOutcome(status) == [kind |-> "status", page |-> <<>>, status |-> status]
ExcOutcome == [kind |-> "exc", page |-> <<>>, status |-> ""]

\* The error text of a failed request: str(e), or f"Status {status_code}".
ErrorOf(outcome) ==
    IF outcome.kind = "status" THEN <<"Status", outcome.status>> ELSE <<"Exception">>

\* The place of the answer to a request that is not answered yet.
NoAnswer == [kind |-> "none", page |-> <<>>, status |-> ""]

\* No "error" key in the per-query result.
NoError == <<>>

\* src_counter = 1, then `src_counter += max_results_per_query` after each
\* query: the first citation number of the query at (1-based) position index.
StartSrcId(index, max_results_per_query) ==
    1 + (index - 1) * max_results_per_query

\* search3: data.get("results", [])[:max_results_per_query]
SliceResults(raw_results, max_results_per_query) ==
    SubSeq(raw_results, 1, Min(max_results_per_query, Len(raw_results)))

\* url_link.split('/') of a url that is None raises AttributeError, which only
\* the enclosing `except Exception` of the whole query catches.
UrlRaises(raw_results) ==
    \E k \in 1..Len(raw_results) : raw_results[k].url = NoneUrl

\* A failure that leaves no error in the entry.
FailedQueryUnrecorded(query, error) ==
    [query |-> query, results |-> <<>>, sources |-> EmptyDict, error |-> NoError]

FailedQuery(query, error) ==
    [query |-> query, results |-> <<>>, sources |-> EmptyDict, error |-> error]

\* The default of result.get("title", "Untitled")
Untitled == Str(<<"Untitled">>, 8, FALSE)

\* search3, fetch_single_query: snippet, results entry and registry record of
\* one raw result.
SearxSnippet(result) ==
    AddDots(ReplaceNewlines(Slice(Get(result, "content", EmptyStr), 150)))

SearxEntry(result, src_counter) ==
    [id |-> SrcId(src_counter),
     title |-> Get(result, "title", Untitled),
     domain |-> DomainOf(Get(result, "url", UrlEmpty)),
     snippet |-> SearxSnippet(result)]

SearxRecord(result) ==
    [url |-> Get(result, "url", UrlEmpty),
     title |-> Get(result, "title", Untitled),
     domain |-> DomainOf(Get(result, "url", UrlEmpty)),
     snippet |-> SearxSnippet(result),
     full_content |-> NoneStr,
     is_fetched |-> FALSE]

\* search3, fetch_single_query
fetch_single_query(query, start_src_id, max_results_per_query, outcome) ==
    IF outcome.kind # "ok" THEN FailedQuery(query, ErrorOf(outcome))
    ELSE
    LET raw_results == SliceResults(outcome.page, max_results_per_query)
        n == Len(raw_results)
    IN  IF UrlRaises(raw_results) THEN FailedQuery(query, <<"Exception">>)
        ELSE [query |-> query,
              results |-> [k \in 1..n |-> SearxEntry(raw_results[k], start_src_id + k - 1)],
              sources |-> [id \in {SrcId(start_src_id + k - 1) : k \in 1..n} |->
                              SearxRecord(raw_results[id[2] - start_src_id + 1])],
              error |-> NoError]

\* search2 and parallel_test: the content of one raw result.
\* excerpts (a non-empty list) joined, else result.get("extract",
\* result.get("snippet", "")).
ExtractContent(result) ==
    LET excerpts == Get(result, "excerpts", <<>>)
    IN  IF excerpts # <<>> THEN JoinExcerpts(excerpts)
        ELSE Get(result, "extract", Get(result, "snippet", EmptyStr))

\* search2: content[:100].replace("\n", " ") + "..." if len(content) > 100 else content
ParallelSnippet(content) ==
    IF StrLen(content) > 100 THEN AddDots(ReplaceNewlines(Slice(content, 100)))
    ELSE content

\* parallel_test: content[:100].replace("\n", " ") + "..."
TestSnippet(content) == AddDots(ReplaceNewlines(Slice(content, 100)))

\* parallel_test: whether the url contains a url of the verified list
\* (the court sites of load_verified_urls); none of the modelled urls does.
IsVerified(url) == FALSE

\* parallel_test: f"[VERIFIED] {title}" if is_verified else title
DisplayTitle(title, is_verified) ==
    IF is_verified THEN Str(<<"[VERIFIED] ">> \o title.doc, title.len + 11, title.nl)
    ELSE title

ParallelEntry(mod, result, src_counter) ==
    LET content == ExtractContent(result)
        url_link == Get(result, "url", UrlEmpty)
        title == Get(result, "title", Untitled)
    IN  IF mod = "search2"
        THEN [id |-> SrcId(src_counter), title |-> title,
              domain |-> DomainOf(url_link), snippet |-> ParallelSnippet(content)]
        ELSE [id |-> SrcId(src_counter),
              title |-> DisplayTitle(title, IsVerified(url_link)),
              domain |-> DomainOf(url_link), snippet |-> TestSnippet(content),
              is_verified |-> IsVerified(url_link)]

ParallelRecord(mod, result) ==
    LET content == ExtractContent(result)
        url_link == Get(result, "url", UrlEmpty)
        title == Get(result, "title", Untitled)
    IN  IF mod = "search2"
        THEN [url |-> url_link, title |-> title, domain |-> DomainOf(url_link),
              full_content |-> content, snippet |-> Slice(content, 200)]
        ELSE [url |-> url_link,
              title |-> DisplayTitle(title, IsVerified(url_link)),
              domain |-> DomainOf(url_link),
              full_content |-> content, snippet |-> Slice(content, 200),
              is_refined |-> FALSE, is_verified |-> IsVerified(url_link)]

\* search2 and parallel_test, fetch_single_objective: every result of the
\* response is numbered, whatever max_results the request asked for.
fetch_single_objective(mod, objective, start_src_id, outcome) ==
    IF outcome.kind # "ok" THEN FailedQuery(objective, ErrorOf(outcome))
    ELSE
    LET raw_results == outcome.page
        n == Len(raw_results)
    IN  IF UrlRaises(raw_results) THEN FailedQuery(objective, <<"Exception">>)
        ELSE [query |-> objective,
              results |-> [k \in 1..n |->
                              ParallelEntry(mod, raw_results[k], start_src_id + k - 1)],
              sources |-> [id \in {SrcId(start_src_id + k - 1) : k \in 1..n} |->
                              ParallelRecord(mod, raw_results[id[2] - start_src_id + 1])],
              error |-> NoError]

(***************************************************************************)
(* Search: aggregation, the session and the summary.                       *)
(***************************************************************************)
\* for result_data in results_list: all_sources.update(result_data['sources'])
RECURSIVE AllSources(_)
AllSources(results_list) ==
    IF results_list = <<>> THEN EmptyDict
    ELSE Update(AllSources(SubSeq(results_list, 1, Len(results_list) - 1)),
                results_list[Len(results_list)].sources)

\* total_results += len(result_data['results'])
RECURSIVE TotalResults(_)
TotalResults(results_list) ==
    IF results_list = <<>> THEN 0
    ELSE Len(Head(results_list).results) + TotalResults(Tail(results_list))

Session(queries, results_list) ==
    [queries |-> queries, results |-> results_list,
     registry |-> AllSources(results_list)]

\* The width a title is cut to in the summary: 60, and 80 in parallel_test.
TitleWidth(mod) == IF mod = "parallel_test" THEN 80 ELSE 60

\* One "## <query>" section: the error line (search3 only) and one line
\* "[id] title (domain)" per result.
Section(mod, result_data) ==
    [query |-> result_data.query,
     error |-> IF mod = "search3" THEN result_data.error ELSE NoError,
     lines |-> [k \in 1..Len(result_data.results) |->
                  [id |-> result_data.results[k].id,
                   title |-> Slice(result_data.results[k].title, TitleWidth(mod)),
                   domain |-> result_data.results[k].domain]]]

\* The text the search tools return on success (search3 prints no count of
\* sources: -1).
Summary(mod, queries, results_list) ==
    [kind |-> "SEARCH_COMPLETE",
     id |-> SearchId(queries),
     queries |-> Len(queries),
     results |-> TotalResults(results_list),
     sources |-> IF mod = "search3" THEN -1
                 ELSE Cardinality(DOMAIN AllSources(results_list)),
     sections |-> [i \in 1..Len(results_list) |-> Section(mod, results_list[i])],
     hint |-> SearchId(queries)]

\* "Error: ... not found in environment variables."
ErrorString(what) == [kind |-> "Error", what |-> what]

\* The place of a task's result while the task has not returned.
Pending == [pending |-> TRUE]
IsPending(x) == "pending" \in DOMAIN x


\* Counters kept per record, keyed by <<search_id, src_id>>.
Count(counters, key) == IF key \in DOMAIN counters THEN counters[key] ELSE 0

Bump(counters, key) ==
    [k \in DOMAIN counters \cup {key} |->
        IF k = key THEN Count(counters, key) + 1 ELSE counters[k]]

\* A search that stores a session under search_id replaces its records.
Forget(counters, search_id) ==
    [k \in {x \in DOMAIN counters : x[1] # search_id} |-> counters[k]]

(***************************************************************************)
(* The search tools: parallel_search_tool (search2, parallel_test) and     *)
(* searxng_search_tool (search3).  The per-query requests are issued       *)
(* together and answered in any order (asyncio.gather); the tool goes on   *)
(* when all are answered.                                                  *)
(***************************************************************************)
\* The environment variable the module reads its credentials from.
CredentialName(mod) ==
    IF mod = "search3" THEN "SEARXNG_BASE_URL" ELSE "PARALLEL_API_KEY"

\* `if not api_key` / `if not base_url`
MissingCredentials(api_key) == api_key = Null

\* search2, search3 and parallel_test test the credentials before anything
\* else; search.py puts os.getenv's value into the request headers untested.
ChecksCredentials(mod) == mod # "search"

\* search.py: a header whose value is None is no header the HTTP client
\* encodes: client.post raises while it builds the request, before anything
\* is sent, and the query's `except Exception` turns that into its error line.
HeaderRejected(api_key) == api_key = Null

\* The requests a finished search call has sent.
RequestsSent(mod, queries, api_key) ==
    IF mod = "search" /\ HeaderRejected(api_key) THEN 0 ELSE Len(queries)

\* search.py, fetch_single_objective: one line per result of the response,
\* numbered from start_src_id; no line for a status other than 200; the error
\* line for an exception.
RECURSIVE SpaceJoinedLen(_)
SpaceJoinedLen(excerpts) ==
    IF excerpts = <<>> THEN 0
    ELSE IF Len(excerpts) = 1 THEN StrLen(excerpts[1])
    ELSE StrLen(excerpts[1]) + 1 + SpaceJoinedLen(Tail(excerpts))

\* ' '.join(excerpts)
SpaceJoin(excerpts) ==
    Str(JoinedDoc(excerpts), SpaceJoinedLen(excerpts),
        \E k \in 1..Len(excerpts) : excerpts[k].nl)

LegacyLine(result, current_id) ==
    [id |-> current_id,
     content |-> AddDots(Slice(SpaceJoin(Get(result, "excerpts", <<>>)), 500)),
     title |-> Get(result, "title", Str(<<"Web">>, 3, FALSE)),
     url |-> Get(result, "url", NoneUrl)]

legacy_fetch_single_objective(objective, start_src_id, outcome) ==
    [query |-> objective,
     results |-> IF outcome.kind = "ok"
                 THEN [k \in 1..Len(outcome.page) |->
                          LegacyLine(outcome.page[k], start_src_id + k - 1)]
                 ELSE <<>>,
     sources |-> EmptyDict,
     error |-> IF outcome.kind = "exc" THEN ErrorOf(outcome) ELSE NoError]

\* search.py: the text returned, one "## Results for: '<q>'" block per query
\* holding the query's lines (its error line, if it raised) or
\* "(No results found)".
LegacyOutput(queries, results_lists) ==
    [kind |-> "RESULTS",
     sections |-> [i \in 1..Len(queries) |->
                     [query |-> queries[i],
                      error |-> results_lists[i].error,
                      lines |-> results_lists[i].results]]]

\* The tool is called: the credentials are checked, then one request per query
\* is issued.
SearchCall(queries, max_results_per_query, api_key) ==
    /\ call = NoCall
    /\ n_calls' = n_calls + 1
    /\ IF ChecksCredentials(module) /\ MissingCredentials(api_key)
       THEN /\ call' = NoCall
            /\ ret' = [op |-> "search", queries |-> queries, api_key |-> api_key,
                       value |-> ErrorString(CredentialName(module)),
                       requests |-> 0]
       ELSE /\ call' = [op |-> "search", queries |-> queries, api_key |-> api_key,
                        max_results_per_query |-> max_results_per_query,
                        answers |-> [i \in 1..Len(queries) |-> NoAnswer],
                        order |-> <<>>,
                        results_list |-> [i \in 1..Len(queries) |-> Pending]]
            /\ ret' = NoRet
    /\ UNCHANGED <<module, refiner_model, SEARCH_CACHE, refine_calls, fetch_calls>>
    /\ UNCHANGED retryVars

\* Results collected in the order the tasks return: the result goes to the
\* first place that holds no result yet.
GatherAsCompleted(results_list, i, result_data) ==
    LET first == CHOOSE j \in 1..Len(results_list) :
                     /\ IsPending(results_list[j])
                     /\ \A k \in 1..(j - 1) : ~IsPending(results_list[k])
    IN  [results_list EXCEPT ![first] = result_data]

\* asyncio.gather: the result of the i-th task is the i-th element of the
\* list, whenever the task returns.
Gather(results_list, i, result_data) ==
    [results_list EXCEPT ![i] = result_data]

\* The request of the query at position i is answered and its task returns;
\* the call keeps the answer beside the task's result, and the order in which
\* the tasks returned.
QueryResponse(i, outcome) ==
    /\ call # NoCall
    /\ call.op = "search"
    /\ i \in 1..Len(call.queries)
    /\ call.answers[i] = NoAnswer
    /\ (module = "search" /\ HeaderRejected(call.api_key)) => outcome = ExcOutcome
    /\ LET start_src_id == StartSrcId(i, call.max_results_per_query)
           result_data ==
               CASE module = "search3" ->
                        fetch_single_query(call.queries[i], start_src_id,
                                           call.max_results_per_query, outcome)
                 [] module = "search" ->
                        legacy_fetch_single_objective(call.queries[i], start_src_id, outcome)
                 [] OTHER ->
                        fetch_single_objective(module, call.queries[i], start_src_id, outcome)
       IN  call' = [call EXCEPT !.results_list = Gather(call.results_list, i, result_data),
                                !.answers[i] = outcome,
                                !.order = Append(call.order, i)]
    /\ UNCHANGED <<module, refiner_model, SEARCH_CACHE, ret, n_calls,
                   refine_calls, fetch_calls>>
    /\ UNCHANGED retryVars

\* After the gather: aggregate, store the session under the query hash
\* (search.py keeps no store), return the summary.
SearchFinish ==
    /\ call # NoCall
    /\ call.op = "search"
    /\ \A i \in 1..Len(call.queries) : ~IsPending(call.results_list[i])
    /\ LET search_id == SearchId(call.queries)
       IN  IF module = "search"
           THEN UNCHANGED <<SEARCH_CACHE, refine_calls, fetch_calls>>
           ELSE /\ SEARCH_CACHE' = CachePut(SEARCH_CACHE, search_id,
                                            Session(call.queries, call.results_list))
                /\ refine_calls' = Forget(refine_calls, search_id)
                /\ fetch_calls' = Forget(fetch_calls, search_id)
    /\ ret' = [op |-> "search", queries |-> call.queries, api_key |-> call.api_key,
               value |-> IF module = "search"
                         THEN LegacyOutput(call.queries, call.results_list)
                         ELSE Summary(module, call.queries, call.results_list),
               requests |-> RequestsSent(module, call.queries, call.api_key)]
    /\ call' = NoCall
    /\ UNCHANGED <<module, refiner_model, n_calls>>
    /\ UNCHANGED retryVars

(***************************************************************************)
(* get_source_details.                                                     *)
(***************************************************************************)
\* The session a call works on: `if search_id and search_id in _SEARCH_CACHE`
\* that session, `elif _SEARCH_CACHE` the last one, else none.
ResolveSession(search_id) ==
    IF search_id # NoId /\ search_id \in CacheIds THEN search_id
    ELSE IF SEARCH_CACHE # <<>> THEN CacheLastId
    ELSE NoId

Registry(sid) == CacheGet(sid).registry

\* The cache with the record src_id of session sid replaced by record.
SetRecord(cache, sid, src_id, record) ==
    [i \in 1..Len(cache) |->
        IF cache[i].id = sid
        THEN [cache[i] EXCEPT !.data.registry[src_id] = record]
        ELSE cache[i]]

\* A selection that stops after the first requested id.
IdsToProcessFirst(source_ids, registry) ==
    IF source_ids # <<>> /\ Head(source_ids) \in DOMAIN registry
    THEN <<Head(source_ids)>> ELSE <<>>

\* [sid for sid in source_ids if sid in registry]
RECURSIVE IdsToProcess(_, _)
IdsToProcess(source_ids, registry) ==
    IF source_ids = <<>> THEN <<>>
    ELSE IF Head(source_ids) \in DOMAIN registry
         THEN <<Head(source_ids)>> \o IdsToProcess(Tail(source_ids), registry)
         ELSE IdsToProcess(Tail(source_ids), registry)

Range(seq) == {seq[t] : t \in 1..Len(seq)}

Ids(tasks) == {tasks[t].src_id : t \in 1..Len(tasks)}

\* json.dumps({"sources": ..., "count": len(...)})
DetailsJson(sources) == [sources |-> sources, count |-> Cardinality(DOMAIN sources)]

DetailsRet(source_ids, search_id, sid, value) ==
    [op |-> "get_details", source_ids |-> source_ids, search_id |-> search_id,
     sid |-> sid, value |-> value]

\* search2: the stored records of the requested ids that are in the registry.
GetDetails2(source_ids, search_id) ==
    /\ call = NoCall
    /\ module = "search2"
    /\ n_calls' = n_calls + 1
    /\ LET sid == ResolveSession(search_id)
       IN  ret' = DetailsRet(source_ids, search_id, sid,
                    IF sid = NoId THEN ErrorString("No cached search data found")
                    ELSE LET registry == Registry(sid)
                             ids == Range(IdsToProcess(source_ids, registry))
                         IN  DetailsJson([id \in ids |-> registry[id]]))
    /\ UNCHANGED <<module, refiner_model, SEARCH_CACHE, call, refine_calls, fetch_calls>>
    /\ UNCHANGED retryVars

\* search3, fetch_and_parse: `if source_info.get("is_fetched") and
\* source_info.get("full_content")`: the stored content is returned.
\* A cache check that never finds the content.
IsCachedNever(source_info) == FALSE

IsCached(source_info) == source_info.is_fetched /\ Truthy(source_info.full_content)

\* A url the HTTP client can send a request to: it names a scheme and a host.
Fetchable(url) == Len(url) >= 3

\* The counters with one more request for each task that sends one.
RECURSIVE BumpEach(_, _, _)
BumpEach(counters, sid, tasks) ==
    IF tasks = <<>> THEN counters
    ELSE IF Head(tasks).state \in {"fetching", "refining"} /\ Head(tasks).sent
         THEN BumpEach(Bump(counters, <<sid, Head(tasks).src_id>>), sid, Tail(tasks))
         ELSE BumpEach(counters, sid, Tail(tasks))

\* search3: one fetch_and_parse task per requested id of the registry; a task
\* whose record is cached is done at once, the others send their request.
GetDetails3(source_ids, search_id) ==
    /\ call = NoCall
    /\ module = "search3"
    /\ n_calls' = n_calls + 1
    /\ LET sid == ResolveSession(search_id)
       IN  IF sid = NoId
           THEN /\ ret' = DetailsRet(source_ids, search_id, sid,
                                     ErrorString("No cached search data found"))
                /\ call' = NoCall
                /\ UNCHANGED fetch_calls
           ELSE LET registry == Registry(sid)
                    ids == IdsToProcess(source_ids, registry)
                    tasks == [t \in 1..Len(ids) |->
                                [src_id |-> ids[t],
                                 state |-> IF IsCached(registry[ids[t]])
                                           THEN "done" ELSE "fetching",
                                 sent |-> Fetchable(registry[ids[t]].url),
                                 outcome |-> "none"]]
                IN  IF tasks = <<>>
                    THEN /\ ret' = DetailsRet(source_ids, search_id, sid,
                                              DetailsJson(EmptyDict))
                         /\ call' = NoCall
                         /\ UNCHANGED fetch_calls
                    ELSE /\ ret' = NoRet
                         /\ call' = [op |-> "get_details", source_ids |-> source_ids,
                                     search_id |-> search_id, sid |-> sid,
                                     tasks |-> tasks]
                         /\ fetch_calls' = BumpEach(fetch_calls, sid, tasks)
    /\ UNCHANGED <<module, refiner_model, SEARCH_CACHE, refine_calls>>
    /\ UNCHANGED retryVars

\* The text trafilatura extracts from the page at url.
PageText(url) == Str(<<"page">> \o url, 1000, TRUE)

ExtractionFailed ==
    Str(<<"Error: Trafilatura could not extract main text (site might be JS-only).">>,
        71, FALSE)

\* f"Error fetching URL: {str(e)}": the message of an HTTPStatusError names
\* the status code.
ErrorFetching(cause) == Str(<<"Error fetching URL: ">> \o cause, 40, FALSE)

HTTPStatusError(status) == <<"HTTPStatusError", status>>
RequestError == <<"RequestError">>

\* A failed fetch that leaves the record as it was.
FetchFailureSilent(source_info, cause) == source_info

\* except Exception as e: source_info['full_content'] = f"Error fetching URL: ..."
FetchFailure(source_info, cause) ==
    [source_info EXCEPT !.full_content = ErrorFetching(cause)]

\* A successful fetch that stores the text and leaves the flag as it was.
FetchSuccessUnflagged(source_info, text_content) ==
    [source_info EXCEPT !.full_content = text_content]

\* source_info['full_content'] = text_content; source_info['is_fetched'] = True
FetchSuccess(source_info, text_content) ==
    [source_info EXCEPT
        !.full_content = IF Truthy(text_content) THEN text_content ELSE ExtractionFailed,
        !.is_fetched = TRUE]

\* The outcomes of a page request: 200 with text that extracts ("text") or not
\* ("empty"), an error status (raise_for_status raises), or an exception.
AfterFetch(source_info, outcome) ==
    CASE outcome = "text"  -> FetchSuccess(source_info, PageText(source_info.url))
      [] outcome = "empty" -> FetchSuccess(source_info, NoneStr)
      [] outcome = "exc"   -> FetchFailure(source_info, RequestError)
      [] OTHER             -> FetchFailure(source_info, HTTPStatusError(outcome))

\* A failed fetch that cancels the tasks still fetching (all-or-nothing).
FetchResponseCancels(t, outcome) ==
    /\ call # NoCall
    /\ call.op = "get_details"
    /\ module = "search3"
    /\ t \in 1..Len(call.tasks)
    /\ call.tasks[t].state = "fetching"
    /\ call.tasks[t].sent \/ outcome = "exc"
    /\ LET src_id == call.tasks[t].src_id
       IN  SEARCH_CACHE' = SetRecord(SEARCH_CACHE, call.sid, src_id,
                                     AfterFetch(Registry(call.sid)[src_id], outcome))
    /\ call' = IF outcome \in {"text", "empty"}
               THEN [call EXCEPT !.tasks[t].state = "done", !.tasks[t].outcome = outcome]
               ELSE [call EXCEPT !.tasks = [u \in 1..Len(call.tasks) |->
                                              [call.tasks[u] EXCEPT !.state = "done",
                                                                    !.outcome = outcome]]]
    /\ UNCHANGED <<module, refiner_model, ret, n_calls, refine_calls, fetch_calls>>
    /\ UNCHANGED retryVars

\* search3: the page request of task t is answered and the task returns; the
\* task keeps the answer it got.
FetchResponse(t, outcome) ==
    /\ call # NoCall
    /\ call.op = "get_details"
    /\ module = "search3"
    /\ t \in 1..Len(call.tasks)
    /\ call.tasks[t].state = "fetching"
    /\ call.tasks[t].sent \/ outcome = "exc"
    /\ LET src_id == call.tasks[t].src_id
       IN  SEARCH_CACHE' = SetRecord(SEARCH_CACHE, call.sid, src_id,
                                     AfterFetch(Registry(call.sid)[src_id], outcome))
    /\ call' = [call EXCEPT !.tasks[t].state = "done", !.tasks[t].outcome = outcome]
    /\ UNCHANGED <<module, refiner_model, ret, n_calls, refine_calls, fetch_calls>>
    /\ UNCHANGED retryVars

\* search3: the entry of final_output for one record.
Details3(data) ==
    [title |-> data.title, url |-> data.url, domain |-> data.domain,
     content |-> data.full_content]

\* search3, after the gather: final_output holds every task's record.
GetDetailsFinish3 ==
    /\ call # NoCall
    /\ call.op = "get_details"
    /\ module = "search3"
    /\ \A t \in 1..Len(call.tasks) : call.tasks[t].state = "done"
    /\ ret' = DetailsRet(call.source_ids, call.search_id, call.sid,
                DetailsJson([id \in Ids(call.tasks) |-> Details3(Registry(call.sid)[id])]))
    /\ call' = NoCall
    /\ UNCHANGED <<module, refiner_model, SEARCH_CACHE, n_calls, refine_calls, fetch_calls>>
    /\ UNCHANGED retryVars

(***************************************************************************)
(* parallel_test: get_source_details with the refinement pass.             *)
(***************************************************************************)
RefineMinLen == 300

\* refine_content: `if not refiner_model or len(raw_text) < 300: return raw_text`
NeedsRefiner(raw_text) == refiner_model /\ ~(StrLen(raw_text) < RefineMinLen)

\* response.content of the refiner for raw_text
RefinedText(raw_text) == Str(<<"refined">> \o raw_text.doc, raw_text.len, FALSE)

\* The value process_source returns for a record and its final text.
DetailsTest(src, final_text) ==
    [title |-> src.title, url |-> src.url, domain |-> src.domain,
     is_verified |-> src.is_verified, content |-> final_text]

\* `if src.get('is_refined', False)`
AlreadyRefined(src) == src.is_refined

\* registry[src_id]['full_content'] = final_text; registry[src_id]['is_refined'] = True
MarkRefined(src, final_text) ==
    [src EXCEPT !.full_content = final_text, !.is_refined = TRUE]

\* The tasks of one call start in the order of the id list, each running to
\* its first suspension: a record already refined, or one the refiner is not
\* called for, is finished (and marked refined) before the next task starts;
\* the others send the refinement request.  acc = [tasks, registry].
RECURSIVE StartProcessSource(_, _)
StartProcessSource(ids, acc) ==
    IF ids = <<>> THEN acc
    ELSE
    LET src_id == Head(ids)
        src == acc.registry[src_id]
        raw_text == src.full_content
    IN  IF AlreadyRefined(src)
        THEN StartProcessSource(Tail(ids),
                [acc EXCEPT !.tasks = Append(@, [src_id |-> src_id, state |-> "done",
                                                 sent |-> FALSE, raw_text |-> raw_text,
                                                 data |-> DetailsTest(src, raw_text)])])
        ELSE IF ~NeedsRefiner(raw_text)
        THEN StartProcessSource(Tail(ids),
                [tasks |-> Append(acc.tasks,
                                  [src_id |-> src_id, state |-> "done",
                                   sent |-> FALSE, raw_text |-> raw_text,
                                   data |-> DetailsTest(src, raw_text)]),
                 registry |-> [acc.registry EXCEPT ![src_id] = MarkRefined(src, raw_text)]])
        ELSE StartProcessSource(Tail(ids),
                [acc EXCEPT !.tasks = Append(@, [src_id |-> src_id, state |-> "refining",
                                                 sent |-> TRUE, raw_text |-> raw_text,
                                                 data |-> DetailsTest(src, NoneStr)])])

SetRegistry(cache, sid, registry) ==
    [i \in 1..Len(cache) |->
        IF cache[i].id = sid THEN [cache[i] EXCEPT !.data.registry = registry]
        ELSE cache[i]]

GetDetailsTest(source_ids, search_id) ==
    /\ call = NoCall
    /\ module = "parallel_test"
    /\ n_calls' = n_calls + 1
    /\ LET sid == ResolveSession(search_id)
       IN  IF sid = NoId
           THEN /\ ret' = DetailsRet(source_ids, search_id, sid,
                                     ErrorString("No cached search data found"))
                /\ call' = NoCall
                /\ UNCHANGED <<SEARCH_CACHE, refine_calls>>
           ELSE LET ids_to_process == IdsToProcess(source_ids, Registry(sid))
                    started == StartProcessSource(ids_to_process,
                                  [tasks |-> <<>>, registry |-> Registry(sid)])
                IN  IF ids_to_process = <<>>
                    THEN /\ ret' = DetailsRet(source_ids, search_id, sid,
                                              DetailsJson(EmptyDict))
                         /\ call' = NoCall
                         /\ UNCHANGED <<SEARCH_CACHE, refine_calls>>
                    ELSE /\ ret' = NoRet
                         /\ call' = [op |-> "get_details", source_ids |-> source_ids,
                                     search_id |-> search_id, sid |-> sid,
                                     tasks |-> started.tasks]
                         /\ SEARCH_CACHE' = SetRegistry(SEARCH_CACHE, sid, started.registry)
                         /\ refine_calls' = BumpEach(refine_calls, sid, started.tasks)
    /\ UNCHANGED <<module, refiner_model, fetch_calls>>
    /\ UNCHANGED retryVars

\* The refiner answers task t ("refined") or its call raises ("exc", and
\* refine_content returns the raw text); the task stores the text and returns.
RefineResponse(t, outcome) ==
    /\ call # NoCall
    /\ call.op = "get_details"
    /\ module = "parallel_test"
    /\ t \in 1..Len(call.tasks)
    /\ call.tasks[t].state = "refining"
    /\ LET src_id == call.tasks[t].src_id
           src == Registry(call.sid)[src_id]
           raw_text == call.tasks[t].raw_text
           final_text == IF outcome = "refined" THEN RefinedText(raw_text) ELSE raw_text
       IN  /\ SEARCH_CACHE' = SetRecord(SEARCH_CACHE, call.sid, src_id,
                                        MarkRefined(src, final_text))
           /\ call' = [call EXCEPT !.tasks[t].state = "done",
                                   !.tasks[t].data = DetailsTest(src, final_text)]
    /\ UNCHANGED <<module, refiner_model, ret, n_calls, refine_calls, fetch_calls>>
    /\ UNCHANGED retryVars

\* for src_id, data in processed_items: results[src_id] = data
RECURSIVE Collect(_)
Collect(tasks) ==
    IF tasks = <<>> THEN EmptyDict
    ELSE LET last == tasks[Len(tasks)]
         IN  Update(Collect(SubSeq(tasks, 1, Len(tasks) - 1)),
                    [id \in {last.src_id} |-> last.data])

GetDetailsFinishTest ==
    /\ call # NoCall
    /\ call.op = "get_details"
    /\ module = "parallel_test"
    /\ \A t \in 1..Len(call.tasks) : call.tasks[t].state = "done"
    /\ ret' = DetailsRet(call.source_ids, call.search_id, call.sid,
                         DetailsJson(Collect(call.tasks)))
    /\ call' = NoCall
    /\ UNCHANGED <<module, refiner_model, SEARCH_CACHE, n_calls, refine_calls, fetch_calls>>
    /\ UNCHANGED retryVars

\* The modules that keep a session store (_SEARCH_CACHE).
StoreModules == {"search2", "search3", "parallel_test"}

(***************************************************************************)
(* The domain queries.                                                     *)
(***************************************************************************)
\* The session list_available_domains reads: search2 and parallel_test take
\* the last session whatever search_id is; search3 takes
\* `_SEARCH_CACHE.get(search_id) if search_id else` the last one.
DomainsSession(search_id) ==
    IF SEARCH_CACHE = <<>> THEN NoId
    ELSE IF module = "search3"
         THEN IF search_id = NoId THEN CacheLastId
              ELSE IF search_id \in CacheIds THEN search_id ELSE NoId
         ELSE CacheLastId

\* json.dumps(list(set(domains)))
DomainsOf(registry) == {registry[id].domain : id \in DOMAIN registry}

list_available_domains(search_id) ==
    /\ call = NoCall
    /\ module \in StoreModules
    /\ n_calls' = n_calls + 1
    /\ LET sid == DomainsSession(search_id)
       IN  ret' = [op |-> "list_domains", search_id |-> search_id, sid |-> sid,
                   value |-> IF sid = NoId THEN {} ELSE DomainsOf(Registry(sid))]
    /\ UNCHANGED <<module, refiner_model, SEARCH_CACHE, call, refine_calls, fetch_calls>>
    /\ UNCHANGED retryVars

\* The session filter_sources_by_domain reads: search3 gives "Invalid search
\* ID" for an unknown id, the others fall back to the last session.
FilterSession(search_id) ==
    IF module = "search3" THEN DomainsSession(search_id) ELSE ResolveSession(search_id)

\* The entry of matched_sources for one record; search3 names the snippet
\* "snippet_preview".
Matched(source_info) ==
    IF module = "search3"
    THEN [title |-> source_info.title, url |-> source_info.url,
          snippet_preview |-> source_info.snippet]
    ELSE [title |-> source_info.title, url |-> source_info.url,
          snippet |-> source_info.snippet]

\* A domain test that takes every record.
DomainMatchesAny(domain, domains) == TRUE

\* `if source_info['domain'] in domains`
DomainMatches(domain, domains) == domain \in Range(domains)

MatchedSources(registry, domains) ==
    [id \in {x \in DOMAIN registry : DomainMatches(registry[x].domain, domains)} |->
        Matched(registry[id])]

\* A filter that also drops the records it does not match from the registry.
filter_in_place(domains, search_id) ==
    /\ call = NoCall
    /\ module \in StoreModules
    /\ n_calls' = n_calls + 1
    /\ LET sid == FilterSession(search_id)
       IN  /\ ret' = [op |-> "filter", domains |-> domains, search_id |-> search_id,
                      sid |-> sid, value |-> ErrorString("No cached search data found")]
           /\ SEARCH_CACHE' =
                  IF sid = NoId THEN SEARCH_CACHE
                  ELSE SetRegistry(SEARCH_CACHE, sid,
                           [id \in {x \in DOMAIN Registry(sid) :
                                       DomainMatches(Registry(sid)[x].domain, domains)} |->
                               Registry(sid)[id]])
    /\ UNCHANGED <<module, refiner_model, call, refine_calls, fetch_calls>>
    /\ UNCHANGED retryVars

filter_sources_by_domain(domains, search_id) ==
    /\ call = NoCall
    /\ module \in StoreModules
    /\ n_calls' = n_calls + 1
    /\ LET sid == FilterSession(search_id)
       IN  ret' = [op |-> "filter", domains |-> domains, search_id |-> search_id,
                   sid |-> sid,
                   value |->
                     IF SEARCH_CACHE = <<>>
                     THEN ErrorString("No cached search data found")
                     ELSE IF sid = NoId THEN ErrorString("Invalid search ID")
                     ELSE LET matched_sources == MatchedSources(Registry(sid), domains)
                          IN  IF module = "search3"
                              THEN [matched_sources |-> matched_sources,
                                    count |-> Cardinality(DOMAIN matched_sources)]
                              ELSE [matched_sources |-> matched_sources,
                                    count |-> Cardinality(DOMAIN matched_sources),
                                    domains_searched |-> domains]]
    /\ UNCHANGED <<module, refiner_model, SEARCH_CACHE, call, refine_calls, fetch_calls>>
    /\ UNCHANGED retryVars

(***************************************************************************)
(* The tools as a state machine: a caller makes one tool call at a time.   *)
(***************************************************************************)
Modules == StoreModules \cup {"search"}

ToolInit ==
    /\ module \in Modules
    /\ refiner_model \in (IF module = "parallel_test" THEN BOOLEAN ELSE {FALSE})
    /\ SEARCH_CACHE = <<>>
    /\ call = NoCall
    /\ ret = NoRet
    /\ n_calls = 0
    /\ refine_calls = EmptyDict
    /\ fetch_calls = EmptyDict
    /\ RetryIdle

\* The query lists a caller submits.
QueryLists == {<<>>, <<"qa">>, <<"qa", "qb">>}

\* The values of max_results_per_query a caller passes.
PerQueryChoices == {1, 2}

\* os.getenv of the module's credentials: unset, or set.
ApiKeys == {Null, "key"}

\* The answers of the provider to one query: an exception of the request, or
\* a page of two results.
QueryOutcomes ==
    {ExcOutcome, OkOutcome(Page(1, 2)), OkOutcome(Page(2, 2)),
     OkOutcome(<<Raw1, RawNull>>)}

\* The citation ids a caller names: two that a search allocates and one that
\* no search allocates.
UnknownId == <<"src_", 0>>

SourceIdLists ==
    {<<SrcId(1)>>, <<SrcId(1), SrcId(1)>>, <<SrcId(1), SrcId(2)>>, <<SrcId(2), UnknownId>>}

\* The search_id a caller passes: none, a stale one, or that of a query list.
StaleSearchId == <<0, 0, 0, 0, 0, 0, 0, 0>>
SearchIdArgs == {NoId, StaleSearchId, SearchId(<<"qa">>)}

FetchOutcomes == {"text", "empty", "404", "exc"}
RefineOutcomes == {"refined", "exc"}

DomainLists == {<<"example.com">>, <<"other.org", "unknown">>}

MayCall == n_calls < MaxCalls

ToolNext ==
    \/ \E queries \in QueryLists, m \in PerQueryChoices, api_key \in ApiKeys :
            MayCall /\ SearchCall(queries, m, api_key)
    \/ \E i \in 1..2, outcome \in QueryOutcomes : QueryResponse(i, outcome)
    \/ SearchFinish
    \/ \E ids \in SourceIdLists, search_id \in SearchIdArgs :
            MayCall /\ GetDetails2(ids, search_id)
    \/ \E ids \in SourceIdLists, search_id \in SearchIdArgs :
            MayCall /\ GetDetails3(ids, search_id)
    \/ \E t \in 1..2, outcome \in FetchOutcomes : FetchResponse(t, outcome)
    \/ GetDetailsFinish3
    \/ \E ids \in SourceIdLists, search_id \in SearchIdArgs :
            MayCall /\ GetDetailsTest(ids, search_id)
    \/ \E t \in 1..2, outcome \in RefineOutcomes : RefineResponse(t, outcome)
    \/ GetDetailsFinishTest
    \/ \E search_id \in SearchIdArgs : MayCall /\ list_available_domains(search_id)
    \/ \E domains \in DomainLists, search_id \in SearchIdArgs :
            MayCall /\ filter_sources_by_domain(domains, search_id)

ToolSpec == ToolInit /\ [][ToolNext]_vars

(***************************************************************************)
(* The content extraction of one result payload, on its own: the payload   *)
(* is drawn at the start and the extraction is applied to it.              *)
(***************************************************************************)
\* The payloads: the excerpts absent, empty, one, two or one empty excerpt;
\* the extract and the snippet absent, null, empty or a text.
Payloads ==
    [excerpts : {AbsentList, <<>>, <<EmptyStr>>, <<Str(<<"E1">>, 50, FALSE)>>,
                 <<Str(<<"E1">>, 50, FALSE), Str(<<"E2">>, 60, FALSE)>>},
     extract : {AbsentStr, NoneStr, EmptyStr, Str(<<"X">>, 150, TRUE)},
     snippet : {AbsentStr, NoneStr, EmptyStr, Str(<<"S">>, 40, FALSE)}]

ExtractInit ==
    /\ module = "search2"
    /\ refiner_model = FALSE
    /\ SEARCH_CACHE = <<>>
    /\ call \in {[op |-> "extract", result |-> result] : result \in Payloads}
    /\ ret = NoRet
    /\ n_calls = 0
    /\ refine_calls = EmptyDict
    /\ fetch_calls = EmptyDict
    /\ RetryIdle

\* The body of the loop over the results, up to `content`.
Extract ==
    /\ call # NoCall
    /\ call.op = "extract"
    /\ ret' = [op |-> "extract", result |-> call.result,
               content |-> ExtractContent(call.result)]
    /\ call' = NoCall
    /\ UNCHANGED <<module, refiner_model, SEARCH_CACHE, n_calls, refine_calls, fetch_calls>>
    /\ UNCHANGED retryVars

ExtractSpec == ExtractInit /\ [][Extract]_vars

(***************************************************************************)
(* Claims about the search tools (checked under ToolSpec).                 *)
(***************************************************************************)
\* The modules whose search and detail tools the claims cite.
Cited == {"search2", "search3"}

\* The stored sessions.
Sessions == {SEARCH_CACHE[s].data : s \in 1..Len(SEARCH_CACHE)}

\* The citation ids listed for one query.
ResultIds(result_data) ==
    {result_data.results[k].id : k \in 1..Len(result_data.results)}

\* C1: the citation ids of two different queries of one batch never overlap
\* and no registry record is overwritten by another query's result, however
\* many results the provider returns: the ids listed for two queries of a
\* session are disjoint and the registry holds one record per listed result.
C1_DisjointRanges ==
    module \in Cited =>
        \A session \in Sessions :
            /\ \A i, j \in 1..Len(session.results) :
                   i # j => ResultIds(session.results[i])
                                \cap ResultIds(session.results[j]) = {}
            /\ Cardinality(DOMAIN session.registry) = TotalResults(session.results)

\* C2: a search call with a query list whose session is in the store, with a
\* populated registry, short-circuits: it sends no request.
C2_Idempotent ==
    [][(/\ module \in Cited
        /\ call = NoCall
        /\ call' # NoCall
        /\ call'.op = "search")
       => ~(/\ SearchId(call'.queries) \in CacheIds
            /\ DOMAIN Registry(SearchId(call'.queries)) # {})]_vars

\* The records of the stored sessions.
Records ==
    UNION {{session.registry[id] : id \in DOMAIN session.registry} : session \in Sessions}

\* The text a failed page fetch stores: "Error fetching URL: ...".
IsErrorFetching(text) == text.doc # <<>> /\ text.doc[1] = "Error fetching URL: "

\* C3 as stated: no record has a non-null full_content while its fetched
\* flag is false.
C3_Original ==
    module = "search3" =>
        \A r \in Records : r.full_content # NoneStr => r.is_fetched

\* C3, amended: a record whose fetched flag is false has a null full_content
\* or the error text a failed fetch stored ("Error fetching URL: ..."); a
\* record whose flag is true has a non-empty full_content.
C3_Amended ==
    module = "search3" =>
        \A r \in Records :
            /\ ~r.is_fetched =>
                   r.full_content = NoneStr \/ IsErrorFetching(r.full_content)
            /\ r.is_fetched => Truthy(r.full_content)

\* A get_details call has returned, leaving one record with the error text of
\* a failed fetch and another fetched.
C3_Witness ==
    /\ module = "search3"
    /\ ret.op = "get_details"
    /\ \E r \in Records : ~r.is_fetched /\ IsErrorFetching(r.full_content)
    /\ \E r \in Records : r.is_fetched

\* C4: over any sequence of completed get_details calls the refiner is
\* invoked at most once for a record.
C4_RefineOnce ==
    module = "parallel_test" =>
        \A key \in DOMAIN refine_calls : refine_calls[key] <= 1

\* C5: an unknown id never makes get_details raise: the call returns, the
\* keys of the returned sources are exactly the requested ids that are in the
\* registry of the resolved session, and count is the number of keys; every
\* task of a call in progress works on a record of that registry.
C5_UnknownIds ==
    /\ (ret.op = "get_details" /\ ret.sid # NoId) =>
           /\ DOMAIN ret.value.sources =
                  Range(ret.source_ids) \cap DOMAIN Registry(ret.sid)
           /\ ret.value.count = Cardinality(DOMAIN ret.value.sources)
    /\ (call # NoCall /\ call.op = "get_details") =>
           \A t \in 1..Len(call.tasks) :
               call.tasks[t].src_id \in DOMAIN Registry(call.sid)

\* A call that named a known and an unknown id has returned the known one.
C5_Witness ==
    /\ ret.op = "get_details"
    /\ ret.sid # NoId
    /\ UnknownId \in Range(ret.source_ids)
    /\ DOMAIN ret.value.sources # {}
    /\ UnknownId \notin DOMAIN ret.value.sources

\* The tasks of the call in progress that fetch the record src_id.
TasksOf(src_id) == {t \in 1..Len(call.tasks) : call.tasks[t].src_id = src_id}

\* The fetch state of a search3 record: the flag set is FETCHED; the flag
\* unset is NOT_FETCHED with no content and FETCH_ERROR with the error text.
FetchState(r) ==
    IF r.is_fetched THEN "FETCHED"
    ELSE IF r.full_content = NoneStr THEN "NOT_FETCHED"
    ELSE "FETCH_ERROR"

SnippetField == IF module = "search3" THEN "snippet_preview" ELSE "snippet"

HasErrorMarker(value) ==
    \/ value.kind = "Error"
    \/ /\ value.kind = "RESULTS"
       /\ \E i \in 1..Len(value.sections) : value.sections[i].error # NoError

\* C8: a search call made with no credentials returns a text with an error
\* marker, having sent no request, allocated no citation id and left the
\* session store as it was.
C8_NoCredentials ==
    [][(/\ ret' # NoRet
        /\ ret'.op = "search"
        /\ ret'.api_key = Null
        /\ (ret' # ret \/ n_calls' # n_calls))
       => /\ HasErrorMarker(ret'.value)
          /\ ret'.requests = 0
          /\ SEARCH_CACHE' = SEARCH_CACHE]_vars

\* The session a finishing search call stores.
StoredBy(queries) == CacheGet(SearchId(queries))

\* C11: a query's failure does not abort the batch: when the call finishes
\* it returns a summary and stores the session; the entry of a query whose
\* request failed records the error and holds no result and no source; the
\* entry of every other query is what its own task returned, numbered from
\* 1 + i * max_results_per_query whatever the other queries got; and an
\* answer to one query changes no other query's entry.
C11_FailureIsolated ==
    [][/\ (/\ module \in Cited
           /\ call # NoCall
           /\ call.op = "search"
           /\ call' = NoCall)
          => /\ ret'.value.kind = "SEARCH_COMPLETE"
             /\ ret'.queries = call.queries
             /\ (SearchId(ret.queries) \in CacheIds)'
             /\ \A i \in 1..Len(call.queries) :
                  LET entry == (StoredBy(ret.queries).results[i])'
                      first == 1 + (i - 1) * call.max_results_per_query
                  IN  /\ entry = call.results_list[i]
                      /\ call.answers[i].kind # "ok" => entry.error # NoError
                      /\ entry.error # NoError =>
                             entry.results = <<>> /\ entry.sources = EmptyDict
                      /\ \A k \in 1..Len(entry.results) :
                             entry.results[k].id = SrcId(first + k - 1)
       /\ (/\ module \in Cited
           /\ call # NoCall
           /\ call.op = "search"
           /\ call' # NoCall)
          => \A j \in 1..Len(call.queries) :
                 ~IsPending(call.results_list[j]) =>
                     call'.results_list[j] = call.results_list[j]]_vars

\* A search has returned its summary and stored a session in which one
\* query failed and another has results.
C11_Witness ==
    /\ module \in Cited
    /\ ret.op = "search"
    /\ ret.value.kind = "SEARCH_COMPLETE"
    /\ LET entries == StoredBy(ret.queries).results
       IN  /\ \E i \in 1..Len(entries) : entries[i].error # NoError
           /\ \E j \in 1..Len(entries) : entries[j].results # <<>>

\* The calls that read a session: get_details and the two domain queries.
SessionReaders == {"get_details", "list_domains", "filter"}

\* C12: a call of get_details, list_domains or filter_by_domain that is given
\* a session key operates on the session of that key and on no other one
\* (on none when the key names no session); the most recent session is used
\* only when the key is omitted.
C12_ExplicitKey ==
    (/\ module \in Cited
     /\ ret # NoRet
     /\ ret.op \in SessionReaders
     /\ ret.search_id # NoId)
    => ret.sid \in {ret.search_id, NoId}

\* C13: when a search call has returned its summary, the session that
\* get_details and the domain queries read when the key is omitted is the
\* session this search call has just stored, whatever searches came before
\* it (an earlier query list submitted again included).
C13_MostRecent ==
    (/\ module \in Cited
     /\ ret # NoRet
     /\ ret.op = "search"
     /\ ret.value.kind = "SEARCH_COMPLETE")
    => /\ ResolveSession(NoId) = ret.value.id
       /\ DomainsSession(NoId) = ret.value.id
       /\ FilterSession(NoId) = ret.value.id

\* The lines of all per-query sections of a summary.
SummaryLines(summary) ==
    UNION {Range(summary.sections[i].lines) : i \in 1..Len(summary.sections)}

\* C14: when a search call has returned a SEARCH_COMPLETE summary, the key
\* printed in the summary is a key of the session store, the session under
\* it holds the per-query results of this call, and every ID listed in the
\* summary is in that session's registry, where its record is the source
\* the summary lists under that ID (same domain).
C14_KeyRoundTrip ==
    (/\ module \in Cited
     /\ ret # NoRet
     /\ ret.op = "search"
     /\ ret.value.kind = "SEARCH_COMPLETE")
    => /\ ret.value.id \in CacheIds
       /\ CacheGet(ret.value.id).queries = ret.queries
       /\ \A line \in SummaryLines(ret.value) :
            /\ line.id \in DOMAIN Registry(ret.value.id)
            /\ Registry(ret.value.id)[line.id].domain = line.domain

\* C15: citation IDs are stable: in every step, every ID that a stored
\* session maps to a record is still an ID of that session afterwards and
\* its record still has the same URL.
C15_StableIds ==
    [][(module \in Cited) =>
          (\A sid \in CacheIds :
               \A id \in DOMAIN Registry(sid) :
                   /\ sid \in CacheIds'
                   /\ id \in DOMAIN Registry(sid)'
                   /\ Registry(sid)'[id].url = Registry(sid)[id].url)]_vars

\* C16: when a search call finishes, the i-th section of its summary and
\* the i-th stored per-query result are those of the i-th submitted query,
\* in whatever order the requests were answered.
C16_SubmissionOrder ==
    [][(/\ module \in Cited
        /\ call # NoCall
        /\ call.op = "search"
        /\ call' = NoCall)
       => /\ Len(ret'.value.sections) = Len(call.queries)
          /\ (Len(StoredBy(ret.queries).results))' = Len(call.queries)
          /\ \A i \in 1..Len(call.queries) :
               /\ ret'.value.sections[i].query = call.queries[i]
               /\ (StoredBy(ret.queries).results[i].query)' = call.queries[i]
               /\ (StoredBy(ret.queries).results[i])' = call.results_list[i]]_vars

\* The second query's request was answered before the first one's and the
\* gather has all the results.
C16_Witness ==
    /\ module \in Cited
    /\ call # NoCall
    /\ call.op = "search"
    /\ call.order = <<2, 1>>
    /\ \A i \in 1..Len(call.queries) : call.results_list[i].query = call.queries[i]

\* C17: a search call with an empty query list returns an error, not a
\* SEARCH_COMPLETE summary, and stores no session.
C17_EmptyQueryList ==
    (/\ module \in Cited
     /\ ret # NoRet
     /\ ret.op = "search"
     /\ ret.queries = <<>>)
    => /\ ret.value.kind = "Error"
       /\ SearchId(<<>>) \notin CacheIds

\* The record of src_id is being fetched by a task of the running call.
BeingFetched(sid, src_id) ==
    /\ call # NoCall
    /\ call.op = "get_details"
    /\ call.sid = sid
    /\ \E t \in TasksOf(src_id) : call.tasks[t].state = "fetching"

C19_ReadOnly ==
    [][(/\ module \in Cited
        /\ n_calls' # n_calls
        /\ ret' # NoRet
        /\ ret'.op \in {"list_domains", "filter"})
       => /\ SEARCH_CACHE' = SEARCH_CACHE
          /\ fetch_calls' = fetch_calls
          /\ refine_calls' = refine_calls
          /\ call' = NoCall]_vars

\* A domain query has run on a session with records (a filter has matched
\* some of them).
C19_Witness ==
    /\ module \in Cited
    /\ ret.op \in {"list_domains", "filter"}
    /\ ret.sid # NoId
    /\ DOMAIN Registry(ret.sid) # {}
    /\ ret.op = "filter" => ret.value.kind # "Error" /\ ret.value.count > 0

\* The tasks of the running get_details call that have sent a request (a
\* page fetch in search3, a refinement in parallel_test) for src_id.
Requesting(src_id) ==
    {t \in TasksOf(src_id) :
        call.tasks[t].state \in {"fetching", "refining"} /\ call.tasks[t].sent}

\* C20: requests for the same citation ID that run concurrently are
\* serialized or deduplicated: at no time do two tasks of a get_details call
\* have a page fetch, or a refinement, of the same record in flight.
C20_Deduplicated ==
    (/\ module \in {"search3", "parallel_test"}
     /\ call # NoCall
     /\ call.op = "get_details")
    => \A t \in 1..Len(call.tasks) :
           Cardinality(Requesting(call.tasks[t].src_id)) <= 1

\* The answers of a page request that make the fetch fail.
FailedFetch == {"404", "exc"}

\* C21: in a get_details call of search3 every fetch that is not served
\* from the store is in flight at once; the answer to one fetch changes only
\* its own task and its own record; and when the call returns, every
\* requested ID of the registry is in the output, an ID whose fetches all
\* failed with the error text as content and an ID whose fetches all
\* succeeded with the page text.
C21_FetchIsolated ==
    [][/\ (/\ module = "search3"
           /\ call = NoCall
           /\ call' # NoCall
           /\ call'.op = "get_details")
          => \A t \in 1..Len(call'.tasks) :
                 \/ call'.tasks[t].state = "fetching"
                 \/ IsCached(Registry(call'.sid)[call'.tasks[t].src_id])
       /\ (/\ module = "search3"
           /\ call # NoCall
           /\ call.op = "get_details"
           /\ call' # NoCall)
          => \E t \in 1..Len(call.tasks) :
                 /\ \A u \in 1..Len(call.tasks) :
                        u # t => call'.tasks[u] = call.tasks[u]
                 /\ \A id \in DOMAIN Registry(call.sid) :
                        id # call.tasks[t].src_id =>
                            Registry(call.sid)[id]' = Registry(call.sid)[id]
       /\ (/\ module = "search3"
           /\ call # NoCall
           /\ call.op = "get_details"
           /\ call' = NoCall)
          => /\ DOMAIN ret'.value.sources =
                    Range(IdsToProcess(call.source_ids, Registry(call.sid)))
             /\ \A id \in Ids(call.tasks) :
                    /\ (\A t \in TasksOf(id) : call.tasks[t].outcome \in FailedFetch)
                           => IsErrorFetching(ret'.value.sources[id].content)
                    /\ (\A t \in TasksOf(id) : call.tasks[t].outcome = "text")
                           => ret'.value.sources[id].content =
                                  PageText(ret'.value.sources[id].url)]_vars

\* A call for two IDs has returned both: one fetch failed and its ID carries
\* the error text, the other succeeded and its ID carries the page text.
C21_Witness ==
    /\ module = "search3"
    /\ ret.op = "get_details"
    /\ ret.sid # NoId
    /\ \E a, b \in DOMAIN ret.value.sources :
           /\ a # b
           /\ IsErrorFetching(ret.value.sources[a].content)
           /\ ret.value.sources[b].content = PageText(ret.value.sources[b].url)
           /\ Registry(ret.sid)[b].is_fetched

\* C25: in the search tools and the detail retriever an error is recorded
\* only after the failed request has been retried: a search that stored a
\* failed per-query entry has sent more requests than it has queries, and a
\* record that holds the error text of a page request that raised (timeout,
\* transport error) has had its page requested at least twice.
C25_RetriedBeforeError ==
    /\ (/\ module \in Cited
        /\ ret.op = "search"
        /\ ret.value.kind = "SEARCH_COMPLETE"
        /\ \E i \in 1..Len(ret.queries) :
               CacheGet(ret.value.id).results[i].error # NoError)
       => ret.requests > Len(ret.queries)
    /\ (/\ module = "search3"
        /\ ret.op = "get_details"
        /\ ret.sid # NoId)
       => \A id \in DOMAIN ret.value.sources :
              (/\ ret.value.sources[id].content = ErrorFetching(RequestError)
               /\ Fetchable(ret.value.sources[id].url))
              => Count(fetch_calls, <<ret.sid, id>>) >= 2

\* The candidates of the fallback chain in order: the excerpts joined with
\* blank lines, the extract field, the snippet field ("" for what is absent
\* or null).
Candidates(result) ==
    LET text(field) == IF field \in {AbsentStr, NoneStr} THEN EmptyStr ELSE field
    IN  <<IF result.excerpts \in {AbsentList, <<>>} THEN EmptyStr
          ELSE JoinExcerpts(result.excerpts),
          text(result.extract),
          text(result.snippet)>>

\* C26: the extracted content of a payload is its first non-empty candidate
\* in the order excerpts, extract, snippet.
C26_FallbackChain ==
    (ret.op = "extract" /\ \E c \in 1..3 : Truthy(Candidates(ret.result)[c]))
    => LET first == CHOOSE c \in 1..3 :
                        /\ Truthy(Candidates(ret.result)[c])
                        /\ \A b \in 1..(c - 1) : ~Truthy(Candidates(ret.result)[b])
       IN  ret.content = Candidates(ret.result)[first]

\* A URL with no host component: the empty string, null, or absent.
Malformed(url) == url = NoneUrl \/ Len(url) < 3

\* C27: a result whose URL is malformed or missing does not make its query
\* fail: the entry of a query whose request was answered has no error, it
\* lists every result the tool takes from the page with the IDs in sequence,
\* and a result with a malformed URL is listed with the domain "unknown".
C27_MalformedUrl ==
    (module \in Cited /\ call.op = "search") =>
        \A i \in 1..Len(call.queries) :
            call.answers[i].kind = "ok" =>
                LET entry == call.results_list[i]
                    page == IF module = "search3"
                            THEN SliceResults(call.answers[i].page,
                                              call.max_results_per_query)
                            ELSE call.answers[i].page
                IN  /\ entry.error = NoError
                    /\ Len(entry.results) = Len(page)
                    /\ \A k \in 1..Len(entry.results) :
                           Malformed(Get(page[k], "url", UrlEmpty)) =>
                               /\ entry.results[k].domain = "unknown"
                               /\ entry.results[k].id \in DOMAIN entry.sources

\* C29: a search3 record is never stuck in the error state: a failed page
\* fetch leaves the record with its fetched flag false and the error text as
\* full_content; a get_details call that names a record in that state
\* fetches its page again; and a successful fetch of such a record replaces
\* the error text with the extracted text and sets the flag.
C29_NeverStuck ==
    [][(module = "search3") =>
          /\ (call # NoCall /\ call.op = "get_details" /\ call' # NoCall) =>
                 \A t \in 1..Len(call.tasks) :
                     (call.tasks[t].state = "fetching" /\ call'.tasks[t].state = "done") =>
                         LET before == Registry(call.sid)[call.tasks[t].src_id]
                             after == Registry(call.sid)[call.tasks[t].src_id]'
                         IN  /\ call'.tasks[t].outcome \in FailedFetch =>
                                    /\ ~after.is_fetched
                                    /\ IsErrorFetching(after.full_content)
                             /\ (/\ call'.tasks[t].outcome = "text"
                                 /\ IsErrorFetching(before.full_content)) =>
                                    /\ after.is_fetched
                                    /\ after.full_content = PageText(before.url)
          /\ (call = NoCall /\ call' # NoCall /\ call'.op = "get_details") =>
                 \A t \in 1..Len(call'.tasks) :
                     IsErrorFetching(Registry(call'.sid)[call'.tasks[t].src_id].full_content)
                         => call'.tasks[t].state = "fetching"]_vars

(***************************************************************************)
(* Claims about the retry loops (checked under RetrySpec).                 *)
(***************************************************************************)
\* A failure the client's loop retries: for Tavily only an exception (an API
\* error response is raised at once), for the others every failure.
Retryable(client, outcome) ==
    IF client = "TavilySearchTool" THEN outcome = "exc" ELSE outcome # "200"

AllRetryable ==
    \A i \in 1..Len(r_history) : Retryable(r_client, r_history[i])

Finished == r_pc \in {"returned", "raised"}

RECURSIVE SumSeq(_)
SumSeq(s) == IF s = <<>> THEN 0 ELSE Head(s) + SumSeq(Tail(s))

\* C9: with max_retries >= 1, a call whose every attempt fails with a
\* retryable exception ends only after exactly max_retries attempts, by
\* raising the client's typed error; a call whose k-th attempt is the first to
\* succeed makes exactly k attempts and returns the response of that attempt.
C9_RetryCount ==
    (r_client \in Clients /\ r_max >= 1) =>
        /\ (Finished /\ AllRetryable) =>
                /\ r_pc = "raised"
                /\ Len(r_history) = r_max
                /\ r_result.error = TypedError(r_client)
        /\ (~Finished /\ r_pc # "idle") => Len(r_history) < r_max
        /\ \A k \in 1..Len(r_history) :
                r_history[k] = "200" =>
                    /\ k = Len(r_history)
                    /\ r_pc = "returned"
                    /\ r_result = Returned(Response(k - 1))
        /\ r_pc = "returned" =>
                /\ Len(r_history) >= 1
                /\ r_history[Len(r_history)] = "200"

C9_Witness ==
    /\ r_pc = "raised"
    /\ r_max = 3
    /\ Len(r_history) = 3
    /\ AllRetryable
    /\ r_client \in LLMClients

\* C10: the sleep after the failed attempt numbered a (0-based) is 2^a; there
\* is no sleep before the first attempt and none after the last one, so a call
\* that exhausts a budget of n attempts has slept 2^(n-1) - 1 in total.
C10_Backoff ==
    r_client \in Clients =>
        /\ \A i \in 1..Len(r_sleeps) : r_sleeps[i] = 2 ^ (i - 1)
        /\ r_pc = "try" => Len(r_sleeps) = Len(r_history)
        /\ r_pc = "sleep" => Len(r_sleeps) = Len(r_history) - 1
        /\ (Finished /\ r_max >= 1) => Len(r_sleeps) = Len(r_history) - 1
        /\ (r_pc = "raised" /\ Len(r_history) = r_max) =>
                SumSeq(r_sleeps) = 2 ^ (r_max - 1) - 1

C10_Witness ==
    /\ r_pc = "raised"
    /\ r_max = 3
    /\ r_sleeps = <<1, 2>>
    /\ r_client = "GeminiClient"

\* One sequence of outcomes begins the other.
Prefix(h, g) == Len(h) <= Len(g) /\ \A i \in 1..Len(h) : h[i] = g[i]

\* C22: the retry loops are one state machine: two finished calls, of any two
\* of the search clients, the LLM clients and the URL validator, that had the
\* same max_retries and met the same outcomes attempt by attempt (as far as
\* the shorter one went) made the same attempts, slept the same backoffs and
\* ended the same way, a failure being surfaced as a raised typed error.
C22_SameMachine ==
    (/\ Finished
     /\ r_client \in Compared
     /\ r_prev # NoRun
     /\ r_prev.max = r_max
     /\ Prefix(r_prev.history, r_history) \/ Prefix(r_history, r_prev.history))
    => /\ r_prev.history = r_history
       /\ r_prev.sleeps = r_sleeps
       /\ r_prev.end = r_result.kind
       /\ (r_history # <<>> /\ r_history[Len(r_history)] # "200") =>
              r_result.kind = "raise"

\* The API error responses that are not to be retried: a 4xx status other
\* than 429 (rate limiting).
NonRetryable == {"404"}

\* C23: in a search client an attempt answered with a non-retryable API
\* error ends the call on that attempt, by raising SearchToolError with no
\* backoff wait after it; an attempt that fails in any other way (a rate
\* limit, a server error, an exception) ends the call only when it is the
\* last attempt of the budget.
C23_ShortCircuit ==
    (r_client \in SearchClients /\ r_max >= 1) =>
        \A k \in 1..Len(r_history) :
            /\ r_history[k] \in NonRetryable =>
                   /\ k = Len(r_history)
                   /\ r_pc = "raised"
                   /\ r_result.error = "SearchToolError"
                   /\ Len(r_sleeps) = k - 1
            /\ (/\ r_history[k] \notin NonRetryable \cup {"200"}
                /\ k = Len(r_history)
                /\ Finished) => k = r_max

\* C24: a stream_chat_completion call that ends with a successful attempt
\* has given its caller the tokens of that attempt only: no token of an
\* earlier, failed attempt is among the tokens the caller received.
C24_OnlyFinalTokens ==
    (/\ r_client \in StreamClients
     /\ r_pc = "returned"
     /\ r_history # <<>>)
    => \A i \in 1..Len(r_tokens) : r_tokens[i][1] = Len(r_history) - 1


\* C28: every call of a client's retried operation, for every max_retries
\* including 0, ends after at least one attempt, either by returning the
\* response of an attempt that succeeded or by raising the client's typed
\* error; it never returns without having attempted the operation.
C28_ReturnsOrRaises ==
    (r_client \in Clients /\ Finished) =>
        /\ Len(r_history) >= 1
        /\ \/ /\ r_pc = "returned"
              /\ r_history[Len(r_history)] = "200"
              /\ r_result = Returned(Response(Len(r_history) - 1))
           \/ /\ r_pc = "raised"
              /\ r_result.error = TypedError(r_client)


\* The call of validate_url has ended.
Validated == r_client = "URLValidator" /\ r_pc = "returned"

\* The failures of an attempt that are not a response: a timeout, a transport
\* exception.
Transient == {"timeout", "exc"}

\* What holds at every point of a validate_url call.
ValidatorSafe ==
    r_client = "URLValidator" =>
        /\ r_pc \in {"try", "returned"}
        /\ Len(r_history) <= r_max
        /\ r_pc = "try" => Len(r_history) < r_max /\ r_attempt = Len(r_history)
        /\ r_pc = "returned" =>
               /\ r_result.kind = "return"
               /\ DOMAIN r_result.value = {"is_valid", "error_message", "preview_text"}
               /\ r_result.value.is_valid \in BOOLEAN
               /\ (r_history = <<>> \/ r_history[Len(r_history)] \in Transient) =>
                      Len(r_history) = r_max /\ ~r_result.value.is_valid
        /\ \A k \in 1..Len(r_history) :
               r_history[k] \notin Transient =>
                   /\ k = Len(r_history)
                   /\ r_pc = "returned"
                   /\ r_history[k] \in {"404", "500"} => ~r_result.value.is_valid

\* C30: validate_url never raises and always ends with a result triple: for
\* every max_retries >= 0 it makes at most max_retries attempts; an attempt
\* that receives a response of any status ends the call on that attempt (a
\* status from 400 up with is_valid false); only timeouts and exceptions are
\* retried; and a call that has started ends.
C30_ValidatorTerminates ==
    /\ []ValidatorSafe
    /\ (r_client = "URLValidator") ~> Validated

\* A call with a budget of three has ended on its third attempt, answered
\* with an error status after a timeout and an exception.
C30_Witness ==
    /\ Validated
    /\ r_max = 3
    /\ r_history = <<"timeout", "exc", "500">>
    /\ ~r_result.value.is_valid

====
